---- MODULE Spec2Model ----
(***************************************************************************)
(* flake8-balanced-wrapping: the Visitor of flake8_balanced_wrapping.py    *)
(* walking an ASTTokens tree and recording Under/OverWrapped errors.       *)
(*                                                                         *)
(* The input of check() is a token stream with (line, col) positions and   *)
(* a tree whose nodes own a first and a last token.  Every token is one    *)
(* column wide and tokens on a line are adjacent (white space is not       *)
(* modelled); separators, operators and trailing commas are tokens, so     *)
(* that "the last child ends right before the closing delimiter" is        *)
(* decided by the tokens as in the program.                                *)
(***************************************************************************)
EXTENDS Naturals, Integers, Sequences, FiniteSets, TLC

\* Bounds of the inputs: source lines used by one statement, and elements
\* (arguments, bases, parameters, entries, operands) of one construct.
MaxLine == 4
MaxKids == 3

VARIABLES
    toks,     \* asttokens.tokens: sequence of [s, line, col]
    nodes,    \* asttokens.tree: sequence of [kind, first, last, parent, role]
    stack,    \* nodes whose visit() call is pending, next one first
    visited,  \* nodes whose visit_* handler has run
    errors,   \* Visitor.errors
    raised    \* an assertion or an unpacking failed: the analysis aborted

vars == <<toks, nodes, stack, visited, errors, raised>>

(***************************************************************************)
(* Input construction: source fragments (tokens + the nodes over them).    *)
(* brk marks a token that may be the first of a new line.                  *)
(***************************************************************************)
Tok(s) == [toks |-> << [s |-> s, brk |-> FALSE] >>, nodes |-> << >>]

Empty == [toks |-> << >>, nodes |-> << >>]

Brk(f) == [f EXCEPT !.toks[1].brk = TRUE]

Cat(f, g) ==
    [toks |-> f.toks \o g.toks,
     nodes |-> f.nodes \o
        [i \in 1..Len(g.nodes) |->
            [g.nodes[i] EXCEPT !.first = @ + Len(f.toks),
                               !.last = @ + Len(f.toks),
                               !.parent = IF @ = 0 THEN 0 ELSE @ + Len(f.nodes)]]]

RECURSIVE CatAll(_)
CatAll(fs) == IF fs = << >> THEN Empty ELSE Cat(Head(fs), CatAll(Tail(fs)))

\* A node of the given kind over the whole fragment; the fragment's top
\* nodes become its children.
Mk(kind, f) ==
    [toks |-> f.toks,
     nodes |-> << [kind |-> kind, first |-> 1, last |-> Len(f.toks),
                   parent |-> 0, role |-> "root"] >> \o
        [i \in 1..Len(f.nodes) |-> [f.nodes[i] EXCEPT !.parent = @ + 1]]]

\* The field of the parent that holds the fragment's first node.
As(role, f) == [f EXCEPT !.nodes[1].role = role]

RECURSIVE Join(_)
Join(fs) ==
    IF fs = << >> THEN Empty
    ELSE IF Len(fs) = 1 THEN Brk(fs[1])
    ELSE Cat(Cat(Brk(fs[1]), Tok(",")), Join(Tail(fs)))

Listing(fs, tr) == IF tr THEN Cat(Join(fs), Tok(",")) ELSE Join(fs)

Bracketed(open, fs, tr, close) ==
    CatAll(<< Tok(open), Listing(fs, tr), Brk(Tok(close)) >>)

Name == Mk("Name", Tok("x"))

\* 's' 's': one Constant of two string tokens, which may sit on two lines
Str2 == Mk("Constant", Cat(Tok("s"), Brk(Tok("s"))))

\* f(x)
Call1 ==
    Mk("Call", CatAll(<< As("func", Name), Tok("("), Brk(As("args", Name)),
                         Brk(Tok(")")) >>))

\* an f-string with a call inside it
FStr == Mk("JoinedStr", Cat(Tok("f"), As("values", Call1)))

Special == {Str2, Call1, FStr}

\* k elements, at most one of them not a plain name
ElemSeqs(k) ==
    {[i \in 1..k |-> Name]} \cup
    {[i \in 1..k |-> IF i = p THEN s ELSE Name] : p \in 1..k, s \in Special}

Elems == UNION {ElemSeqs(k) : k \in 0..MaxKids}

ListLit(es, tr) ==
    Mk("List", Bracketed("[", [i \in DOMAIN es |-> As("elts", es[i])], tr, "]"))

TupleP(es, tr) ==
    Mk("Tuple", Bracketed("(", [i \in DOMAIN es |-> As("elts", es[i])], tr, ")"))

TupleU(es) == Mk("Tuple", Join([i \in DOMAIN es |-> As("elts", es[i])]))

Keyword(v) == Mk("keyword", CatAll(<< Tok("k"), Tok("="), As("value", v) >>))

\* the last nkw elements are keyword arguments
Arguments(es, nkw, pos) ==
    [i \in DOMAIN es |->
        IF i <= Len(es) - nkw THEN As(pos, es[i])
        ELSE As("keywords", Keyword(es[i]))]

\* fn(...): the callee is a name, or itself a call that may span lines
CallExpr(fn, es, nkw, tr) ==
    Mk("Call", Cat(As("func", fn),
                   Bracketed("(", Arguments(es, nkw, "args"), tr, ")")))

\* {x: v, ...}; with spread the first entry is **v
DictLit(es, spread, tr) ==
    Mk("Dict", Bracketed("{",
        [i \in DOMAIN es |->
            IF spread /\ i = 1 THEN Cat(Tok("**"), As("values", es[i]))
            ELSE CatAll(<< As("keys", Name), Tok(":"), As("values", es[i]) >>)],
        tr, "}"))

Pass == Mk("Pass", Tok("pass"))

ClassDef(es, nkw, tr) ==
    Mk("ClassDef", CatAll(<< Tok("class"), Tok("C"),
        Bracketed("(", Arguments(es, nkw, "bases"), tr, ")"),
        Tok(":"), As("body", Pass) >>))

\* class C: f(x)   -- no parenthesis after the class name
ClassBare ==
    Mk("ClassDef", CatAll(<< Tok("class"), Tok("C"), Tok(":"),
        As("body", Mk("Expr", As("value", Call1))) >>))

Arg == Mk("arg", Tok("a"))

Params(k, tr) ==
    IF k = 0 THEN Empty
    ELSE LET a == As("args", Mk("arguments", Join([i \in 1..k |-> As("args", Arg)])))
         IN  IF tr THEN Cat(a, Tok(",")) ELSE a

FunctionDef(kind, k, tr, ret) ==
    Mk(kind, CatAll(<< Tok("def"), Tok("f"), Tok("("), Params(k, tr), Brk(Tok(")")),
        (IF ret THEN Cat(Tok("->"), As("returns", Name)) ELSE Empty),
        Tok(":"), As("body", Pass) >>))

IfExp(es) ==
    Mk("IfExp", CatAll(<< As("body", es[1]), Brk(Tok("if")), As("test", es[2]),
                          Brk(Tok("else")), As("orelse", es[3]) >>))

RECURSIVE Chain(_)
Chain(es) ==
    IF es = << >> THEN Empty
    ELSE CatAll(<< Tok("<"), Brk(As("comparators", Head(es))), Chain(Tail(es)) >>)

Compare(es) == Mk("Compare", Cat(As("left", es[1]), Chain(Tail(es))))

ListComp(it) ==
    Mk("ListComp", CatAll(<< Tok("["), Brk(As("elt", Name)),
        Brk(As("generators", Mk("comprehension",
            CatAll(<< Tok("for"), As("target", Name), Brk(Tok("in")),
                      As("iter", it) >>)))),
        Brk(Tok("]")) >>))

\* x[e]: brackets around e that are not parentheses
Sub(e) ==
    Mk("Subscript", CatAll(<< As("value", Name), Tok("["), Brk(As("slice", e)),
                              Brk(Tok("]")) >>))

\* (e): the parentheses belong to the enclosing node
Par(e) == CatAll(<< Tok("("), Brk(e), Brk(Tok(")")) >>)

ExprStmt(e) == Mk("Expr", As("value", e))

Module(stmt) ==
    Cat(Mk("Module", Cat(As("body", stmt), Tok("NEWLINE"))), Tok("ENDMARKER"))

\* No trailing comma in an empty list.
ElemsTr == {c \in Elems \X BOOLEAN : c[2] => c[1] # << >>}

\* ... and no more keyword arguments than arguments.
ElemsKwTr(maxkw) ==
    {c \in Elems \X (0..maxkw) \X BOOLEAN : c[2] <= Len(c[1]) /\ (c[3] => c[1] # << >>)}

Operands == {es \in Elems : Len(es) >= 2}

Exprs ==
    {ListLit(c[1], c[2]) : c \in ElemsTr} \cup
    {TupleP(c[1], c[2]) : c \in ElemsTr} \cup
    {Sub(TupleU(es)) : es \in Elems \ {<< >>}} \cup
    {CallExpr(fn, c[1], c[2], c[3]) : fn \in {Name, Call1}, c \in ElemsKwTr(MaxKids)} \cup
    {DictLit(c[1], sp, c[2]) : c \in ElemsTr, sp \in BOOLEAN} \cup
    {Sub(IfExp(es)) : es \in ElemSeqs(3)} \cup
    {Par(IfExp(es)) : es \in ElemSeqs(3)} \cup
    {Sub(Compare(es)) : es \in Operands} \cup
    {Par(Compare(es)) : es \in Operands} \cup
    {ListComp(it) : it \in {Name} \cup Special}

Stmts ==
    {ExprStmt(e) : e \in Exprs} \cup
    {ClassDef(c[1], c[2], c[3]) : c \in ElemsKwTr(1)} \cup
    {ClassBare} \cup
    {FunctionDef(kind, c[1], c[2], ret) :
        kind \in {"FunctionDef", "AsyncFunctionDef"},
        c \in {c \in (0..MaxKids) \X BOOLEAN : c[2] => c[1] > 0},
        ret \in BOOLEAN}

Shapes == {Module(s) : s \in Stmts}

Breakable(sh) == {i \in DOMAIN sh.toks : sh.toks[i].brk}

\* The token positions when the tokens of bk each start a new line.
Layout(sh, bk) ==
    LET nl(i) == i \in bk \/ sh.toks[i].s = "ENDMARKER"
        start(i) == IF \E j \in 1..i : nl(j)
                    THEN CHOOSE j \in 1..i : nl(j) /\ \A m \in (j + 1)..i : ~nl(m)
                    ELSE 1
    IN  [i \in DOMAIN sh.toks |->
            [s |-> sh.toks[i].s,
             line |-> 1 + Cardinality({j \in 1..i : nl(j)}),
             col |-> i - start(i)]]

(***************************************************************************)
(* Positions and tokens (tuck.ast.Position, asttokens).                    *)
(***************************************************************************)
Position(line, col) == [line |-> line, col |-> col]

TokStart(t) == Position(t.line, t.col)

TokEnd(t) == Position(t.line, t.col + 1)

first_token(n) == nodes[n].first

last_token(n) == nodes[n].last

\* asttokens.find_token: the first token from start on with that string,
\* the ENDMARKER when there is none
find_token(start, str) ==
    CHOOSE i \in start..Len(toks) :
        /\ toks[i].s = str \/ toks[i].s = "ENDMARKER"
        /\ \A j \in start..(i - 1) : toks[j].s # str /\ toks[j].s # "ENDMARKER"

prev_token(i) == i - 1

next_token(i) == i + 1

from_node_start(n) == TokStart(toks[first_token(n)])

\* only its line is read
from_node_end(n) == TokStart(toks[last_token(n)])

expression_is_parenthesised(n) ==
    /\ toks[prev_token(first_token(n))].s = "("
    /\ toks[next_token(last_token(n))].s = ")"

get_start_position(n) == from_node_start(n)

get_end_position(n) == TokEnd(toks[last_token(n)])

get_end_positions(ns) == [i \in DOMAIN ns |-> get_end_position(ns[i])]

(***************************************************************************)
(* The tree: fields of a node, in the order ast.NodeVisitor walks them.    *)
(***************************************************************************)
RECURSIVE Ascending(_)
Ascending(S) ==
    IF S = {} THEN << >>
    ELSE LET m == CHOOSE x \in S : \A y \in S : x <= y
         IN  << m >> \o Ascending(S \ {m})

\* node.<field>, as a list (empty when the field is None or absent)
field(n, name) ==
    Ascending({i \in DOMAIN nodes : nodes[i].parent = n /\ nodes[i].role = name})

Fields(kind) ==
    CASE kind = "Module" -> << "body" >>
      [] kind = "Expr" -> << "value" >>
      [] kind = "ClassDef" -> << "bases", "keywords", "body", "decorator_list" >>
      [] kind \in {"FunctionDef", "AsyncFunctionDef"} ->
            << "args", "body", "decorator_list", "returns" >>
      [] kind = "arguments" ->
            << "posonlyargs", "args", "vararg", "kwonlyargs", "kw_defaults",
               "kwarg", "defaults" >>
      [] kind = "Call" -> << "func", "args", "keywords" >>
      [] kind = "keyword" -> << "value" >>
      [] kind = "Dict" -> << "keys", "values" >>
      [] kind = "IfExp" -> << "test", "body", "orelse" >>
      [] kind \in {"List", "Tuple"} -> << "elts" >>
      [] kind = "ListComp" -> << "elt", "generators" >>
      [] kind = "comprehension" -> << "target", "iter", "ifs" >>
      [] kind = "Compare" -> << "left", "comparators" >>
      [] kind = "Subscript" -> << "value", "slice" >>
      [] kind = "JoinedStr" -> << "values" >>
      [] OTHER -> << >>

RECURSIVE FieldNodes(_, _)
FieldNodes(n, names) ==
    IF names = << >> THEN << >>
    ELSE field(n, Head(names)) \o FieldNodes(n, Tail(names))

\* ast.iter_child_nodes
iter_child_nodes(n) == FieldNodes(n, Fields(nodes[n].kind))

(***************************************************************************)
(* dict[int, list[ast.AST]] in insertion order: a sequence of              *)
(* [line, nodes].                                                          *)
(***************************************************************************)
contains(by, l) == \E i \in DOMAIN by : by[i].line = l

getitem(by, l) == by[CHOOSE i \in DOMAIN by : by[i].line = l].nodes

\* by[l].append(x) on a defaultdict(list)
append(by, l, x) ==
    IF contains(by, l)
    THEN [i \in DOMAIN by |->
            IF by[i].line = l THEN [by[i] EXCEPT !.nodes = Append(@, x)] ELSE by[i]]
    ELSE Append(by, [line |-> l, nodes |-> << x >>])

RECURSIVE append_starts(_, _)
append_starts(by, ns) ==
    IF ns = << >> THEN by
    ELSE append_starts(append(by, get_start_position(Head(ns)).line, Head(ns)), Tail(ns))

\* mutant: no hugging, the node always goes to its end line
get_nodes_by_line_number_no_hugging(node, reference, ns, include_node_end, include_node_start) ==
    LET b0 == IF include_node_start THEN append(<< >>, reference.line, node) ELSE << >>
        b1 == append_starts(b0, ns)
        end == TokEnd(toks[last_token(node)])
    IN  IF include_node_end THEN append(b1, end.line, node) ELSE b1

\* mutant: hugging leaves the node out even when its end line has a bucket
get_nodes_by_line_number_hug_always(node, reference, ns, include_node_end, include_node_start) ==
    LET b0 == IF include_node_start THEN append(<< >>, reference.line, node) ELSE << >>
        b1 == append_starts(b0, ns)
        end == TokEnd(toks[last_token(node)])
        just_before_end_pos == Position(end.line, end.col - 1)
        end_positions == get_end_positions(ns)
    IN  IF include_node_end
           /\ \A i \in DOMAIN end_positions : end_positions[i] # just_before_end_pos
        THEN append(b1, end.line, node)
        ELSE b1

get_nodes_by_line_number(node, reference, ns, include_node_end, include_node_start) ==
    LET b0 == IF include_node_start THEN append(<< >>, reference.line, node) ELSE << >>
        b1 == append_starts(b0, ns)
        end == TokEnd(toks[last_token(node)])
        just_before_end_pos == Position(end.line, end.col - 1)
        end_positions == get_end_positions(ns)
    IN  IF include_node_end
           /\ (\/ \A i \in DOMAIN end_positions : end_positions[i] # just_before_end_pos
               \/ contains(b1, end.line))
        THEN append(b1, end.line, node)
        ELSE b1

\* mutant: a tie between the largest counts goes to the last of them
most_common_last(by) ==
    CHOOSE i \in DOMAIN by :
        /\ \A j \in DOMAIN by : Len(by[j].nodes) <= Len(by[i].nodes)
        /\ \A j \in (i + 1)..Len(by) : Len(by[j].nodes) < Len(by[i].nodes)

\* Counter(counts).most_common(1): the first of the largest counts
most_common(by) ==
    CHOOSE i \in DOMAIN by :
        /\ \A j \in DOMAIN by : Len(by[j].nodes) <= Len(by[i].nodes)
        /\ \A j \in 1..(i - 1) : Len(by[j].nodes) < Len(by[i].nodes)

\* by is not empty (the caller raises otherwise)
summarise_lines(by) ==
    LET i == most_common(by)
    IN  [is_single_line |-> Len(by) = 1,
         is_single_column |-> Len(by[i].nodes) = 1,
         most_common_line_number |-> by[i].line]

\* mutant: "and" for "or"
is_single_line_and_column(summary) ==
    summary.is_single_line /\ summary.is_single_column

is_single_line_or_column(summary) ==
    summary.is_single_line \/ summary.is_single_column

RECURSIVE chain_from_iterable(_)
chain_from_iterable(by) ==
    IF by = << >> THEN << >> ELSE Head(by).nodes \o chain_from_iterable(Tail(by))

(***************************************************************************)
(* The visitor.  st = [errors, raised] is threaded through a handler.      *)
(***************************************************************************)
Raise(st) == [st EXCEPT !.raised = TRUE]

\* mutant: the error lists the node in place of the conflicting elements
record_error_node_only(st, node, ns, error_type) ==
    IF st.raised THEN st
    ELSE IF ns = << >> THEN Raise(st)
    ELSE [st EXCEPT !.errors =
            Append(@, [type |-> error_type, node |-> node,
                       positions |-> << get_start_position(node) >>])]

record_error(st, node, ns, error_type) ==
    LET positions == [i \in DOMAIN ns |-> get_start_position(ns[i])]
    IN  IF st.raised THEN st
        ELSE IF positions = << >> THEN Raise(st)
        ELSE [st EXCEPT !.errors =
                Append(@, [type |-> error_type, node |-> node, positions |-> positions])]

check_under_wrapping(st, node, reference, ns, include_node_end, include_node_start) ==
    LET by_line_no == get_nodes_by_line_number(node, reference, ns,
                                               include_node_end, include_node_start)
        summary == summarise_lines(by_line_no)
    IN  IF by_line_no = << >> THEN Raise(st)
        ELSE IF ~is_single_line_or_column(summary)
        THEN record_error(st, node, getitem(by_line_no, summary.most_common_line_number),
                          "UnderWrappedError")
        ELSE st

\* mutant: the under-wrap test (several lines and a crowded one) in place of
\* "not exactly one line"
check_over_wrapping_as_under(st, node, reference, ns, include_node_end, include_node_start) ==
    LET by_line_no == get_nodes_by_line_number(node, reference, ns,
                                               include_node_end, include_node_start)
    IN  IF ~is_single_line_or_column(summarise_lines(by_line_no))
        THEN record_error(st, node, chain_from_iterable(by_line_no), "OverWrappedError")
        ELSE st

check_over_wrapping(st, node, reference, ns, include_node_end, include_node_start) ==
    LET by_line_no == get_nodes_by_line_number(node, reference, ns,
                                               include_node_end, include_node_start)
    IN  IF Len(by_line_no) # 1
        THEN record_error(st, node, chain_from_iterable(by_line_no), "OverWrappedError")
        ELSE st

ClassDef_check(st, node) ==
    LET ns == field(node, "bases") \o field(node, "keywords")
        class_tok == find_token(first_token(node), "class")
        open_paren == find_token(class_tok, "(")
    IN  check_under_wrapping(st, node, TokEnd(toks[open_paren]), ns, FALSE, TRUE)

FunctionDef_check(st, node) ==
    LET args == field(node, "args")
        a(name) == IF args = << >> THEN << >> ELSE field(args[1], name)
        ns == a("posonlyargs") \o a("args") \o a("vararg") \o a("kwonlyargs")
              \o a("kwarg") \o field(node, "returns")
        def_tok == find_token(first_token(node), "def")
        open_paren == find_token(def_tok, "(")
    IN  check_under_wrapping(st, node, TokEnd(toks[open_paren]), ns, FALSE, TRUE)

Call_open_paren(node) == find_token(last_token(field(node, "func")[1]), "(")

Call_by_line_no(node) ==
    get_nodes_by_line_number(node, TokEnd(toks[Call_open_paren(node)]),
                             field(node, "args") \o field(node, "keywords"), TRUE, TRUE)

\* mutant: the keyword group has the node's end only when there are keywords
Call_kwargs_by_line_no_without_end(node) ==
    get_nodes_by_line_number(node, TokEnd(toks[Call_open_paren(node)]),
                             field(node, "keywords"), field(node, "keywords") # << >>,
                             field(node, "args") = << >>)

\* mutant: the keyword group always includes the node's start
Call_kwargs_by_line_no_with_start(node) ==
    get_nodes_by_line_number(node, TokEnd(toks[Call_open_paren(node)]),
                             field(node, "keywords"), TRUE, TRUE)

Call_kwargs_by_line_no(node) ==
    get_nodes_by_line_number(node, TokEnd(toks[Call_open_paren(node)]),
                             field(node, "keywords"), TRUE, field(node, "args") = << >>)

Call_pos_args_by_line_no(node) ==
    get_nodes_by_line_number(node, TokEnd(toks[Call_open_paren(node)]),
                             field(node, "args"), field(node, "keywords") = << >>, TRUE)

Call_check(st, node) ==
    LET by_line_no == Call_by_line_no(node)
        kwargs_by_line_no == Call_kwargs_by_line_no(node)
        kwargs_summary == summarise_lines(kwargs_by_line_no)
        pos_args_by_line_no == Call_pos_args_by_line_no(node)
        pos_args_summary == summarise_lines(pos_args_by_line_no)
        st1 == IF kwargs_by_line_no = << >> THEN Raise(st)
               ELSE IF ~kwargs_summary.is_single_column
               THEN record_error(st, node,
                        getitem(kwargs_by_line_no, kwargs_summary.most_common_line_number),
                        "UnderWrappedError")
               ELSE st
    IN  IF Len(by_line_no) > 1
        THEN IF st1.raised THEN st1
             ELSE IF ~is_single_line_or_column(pos_args_summary)
             THEN record_error(st1, node,
                      getitem(pos_args_by_line_no, pos_args_summary.most_common_line_number),
                      "UnderWrappedError")
             ELSE st1
        ELSE st

\* mutant: the number of values is not looked at
check_single_entry_hugging_any_count(node) ==
    LET values == field(node, "values")
    IN  /\ values # << >>
        /\ from_node_start(values[1]).line = from_node_start(node).line
        /\ from_node_end(values[1]).line = from_node_end(node).line

check_single_entry_hugging(node) ==
    LET values == field(node, "values")
    IN  IF Len(values) # 1 THEN FALSE
        ELSE /\ from_node_start(values[1]).line = from_node_start(node).line
             /\ from_node_end(values[1]).line = from_node_end(node).line

Dict_check(st, node) ==
    LET by_line_no == get_nodes_by_line_number(node, from_node_start(node),
                                               field(node, "keys"), TRUE, TRUE)
        summary == summarise_lines(by_line_no)
    IN  IF ~is_single_line_or_column(summary) /\ ~check_single_entry_hugging(node)
        THEN record_error(st, node, getitem(by_line_no, summary.most_common_line_number),
                          "UnderWrappedError")
        ELSE st

\* mutant: only the opening parenthesis is accounted for
IfExp_group_open_paren_only(node) ==
    LET start_pos == TokStart(toks[prev_token(first_token(node))])
        by_line_no == get_nodes_by_line_number(node, start_pos,
            field(node, "body") \o field(node, "test") \o field(node, "orelse"),
            FALSE, FALSE)
    IN  IF expression_is_parenthesised(node)
        THEN append(by_line_no, start_pos.line, node)
        ELSE by_line_no

IfExp_group(node) ==
    LET start_pos == TokStart(toks[prev_token(first_token(node))])
        by_line_no == get_nodes_by_line_number(node, start_pos,
            field(node, "body") \o field(node, "test") \o field(node, "orelse"),
            FALSE, FALSE)
        end_pos == TokEnd(toks[next_token(last_token(node))])
    IN  IF expression_is_parenthesised(node)
        THEN append(append(by_line_no, start_pos.line, node), end_pos.line, node)
        ELSE by_line_no

IfExp_check(st, node) ==
    LET by_line_no == IfExp_group(node)
        summary == summarise_lines(by_line_no)
    IN  IF ~is_single_line_or_column(summary)
        THEN record_error(st, node, getitem(by_line_no, summary.most_common_line_number),
                          "UnderWrappedError")
        ELSE st

List_check(st, node) ==
    check_under_wrapping(st, node, from_node_start(node), field(node, "elts"), TRUE, TRUE)

\* mutant: every tuple is taken to be parenthesised
is_parenthesised_always(node) == node \in DOMAIN nodes

is_parenthesised(node) ==
    /\ toks[first_token(node)].s = "("
    /\ toks[last_token(node)].s = ")"

Tuple_check(st, node) ==
    check_under_wrapping(st, node, from_node_start(node), field(node, "elts"),
                         is_parenthesised(node), is_parenthesised(node))

comprehension_check(st, node) ==
    check_over_wrapping(st, node, from_node_start(node),
                        field(node, "target") \o field(node, "iter"), FALSE, FALSE)

Compare_check(st, node) ==
    check_over_wrapping(st, node, from_node_start(field(node, "left")[1]),
                        field(node, "left") \o field(node, "comparators"), TRUE, TRUE)

Checked ==
    {"ClassDef", "FunctionDef", "AsyncFunctionDef", "Call", "Dict", "IfExp",
     "JoinedStr", "List", "Tuple", "comprehension", "Compare"}

\* One visit(node) call: the handler's own check, then generic_visit, which
\* calls visit on the children in field order before anything else pending.
\* (st is what the handler's check leaves of the visitor's error list)
Visit(kinds, st, descend) ==
    /\ ~raised
    /\ stack # << >>
    /\ nodes[Head(stack)].kind \in kinds
    /\ LET node == Head(stack)
       IN  /\ errors' = st.errors
           /\ raised' = st.raised
           /\ visited' = visited \cup {node}
           /\ stack' = IF st.raised THEN stack
                       ELSE IF descend THEN iter_child_nodes(node) \o Tail(stack)
                       ELSE Tail(stack)
    /\ UNCHANGED <<toks, nodes>>

NoCheck(st, node) == st

\* the visitor as a handler finds it
self == [errors |-> errors, raised |-> FALSE]

visit_ClassDef == Visit({"ClassDef"}, ClassDef_check(self, Head(stack)), TRUE)

visit_FunctionDef ==
    Visit({"FunctionDef", "AsyncFunctionDef"}, FunctionDef_check(self, Head(stack)), TRUE)

visit_Call == Visit({"Call"}, Call_check(self, Head(stack)), TRUE)

visit_Dict == Visit({"Dict"}, Dict_check(self, Head(stack)), TRUE)

visit_IfExp == Visit({"IfExp"}, IfExp_check(self, Head(stack)), TRUE)

visit_JoinedStr == Visit({"JoinedStr"}, NoCheck(self, Head(stack)), FALSE)

visit_List == Visit({"List"}, List_check(self, Head(stack)), TRUE)

visit_Tuple == Visit({"Tuple"}, Tuple_check(self, Head(stack)), TRUE)

visit_comprehension == Visit({"comprehension"}, comprehension_check(self, Head(stack)), TRUE)

visit_Compare == Visit({"Compare"}, Compare_check(self, Head(stack)), TRUE)

generic_visit ==
    /\ ~raised
    /\ stack # << >>
    /\ nodes[Head(stack)].kind \notin Checked
    /\ stack' = iter_child_nodes(Head(stack)) \o Tail(stack)
    /\ visited' = visited \cup {Head(stack)}
    /\ UNCHANGED <<toks, nodes, errors, raised>>

\* check(asttokens): a Visitor with no errors, about to visit the tree
Init ==
    /\ \E sh \in Shapes :
         \E bk \in SUBSET Breakable(sh) :
            /\ Cardinality(bk) <= MaxLine - 1
            /\ toks = Layout(sh, bk)
            /\ nodes = sh.nodes
    /\ stack = << 1 >>
    /\ visited = {}
    /\ errors = << >>
    /\ raised = FALSE

Next ==
    \/ visit_ClassDef
    \/ visit_FunctionDef
    \/ visit_Call
    \/ visit_Dict
    \/ visit_IfExp
    \/ visit_JoinedStr
    \/ visit_List
    \/ visit_Tuple
    \/ visit_comprehension
    \/ visit_Compare
    \/ generic_visit

Spec == Init /\ [][Next]_vars

\* check() has returned visitor.errors
Returned == stack = << >> /\ ~raised

\* UnderWrappedError.position / OverWrappedError.position
position(e) == e.positions[1]

\* the <N> of __str__
str_count(e) ==
    IF e.type = "UnderWrappedError" THEN Len(e.positions)
    ELSE Cardinality({e.positions[i].line : i \in DOMAIN e.positions})

\* flake8_balanced_wrapping: one tuple per error, in order
flake8_balanced_wrapping ==
    [i \in DOMAIN errors |->
        << position(errors[i]).line, position(errors[i]).col,
           [code |-> IF errors[i].type = "UnderWrappedError" THEN "BWR001" ELSE "BWR002",
            name |-> nodes[errors[i].node].kind,
            n |-> str_count(errors[i])] >>]

(***************************************************************************)
(* Vocabulary of the properties.  A node's errors are all recorded by its  *)
(* own visit, so the properties are stated of the walk once check() has    *)
(* returned.                                                               *)
(***************************************************************************)
Kind(n) == nodes[n].kind

\* the lines of the source
Lines == 1..toks[Len(toks)].line

StartLine(n) == toks[nodes[n].first].line

EndLine(n) == toks[nodes[n].last].line

\* the errors recorded for node n, in the order recorded
ErrorsOf(n) ==
    LET OfNode(e) == e.node = n
    IN  SelectSeq(errors, OfNode)

Starts(ns) == [i \in DOMAIN ns |-> Position(StartLine(ns[i]), toks[nodes[ns[i]].first].col)]

Under(n, ns) == [type |-> "UnderWrappedError", node |-> n, positions |-> Starts(ns)]

Over(n, ns) == [type |-> "OverWrappedError", node |-> n, positions |-> Starts(ns)]

ManyLines(g) == Len(g) > 1

Crowded(g) == \E i \in DOMAIN g : Len(g[i].nodes) > 1

\* the first of the buckets no other bucket is larger than
MostCrowded(g) ==
    LET i == CHOOSE i \in DOMAIN g :
                /\ \A j \in DOMAIN g : Len(g[j].nodes) <= Len(g[i].nodes)
                /\ ~ \E j \in DOMAIN g : j < i /\ Len(g[j].nodes) = Len(g[i].nodes)
    IN  g[i].nodes

\* the position right after the first "(" that follows the keyword
AfterParen(n, keyword) ==
    LET kw == CHOOSE i \in nodes[n].first..Len(toks) :
                 toks[i].s \in {keyword, "ENDMARKER"}
                 /\ \A j \in nodes[n].first..(i - 1) : toks[j].s \notin {keyword, "ENDMARKER"}
        op == CHOOSE i \in kw..Len(toks) :
                 toks[i].s \in {"(", "ENDMARKER"}
                 /\ \A j \in kw..(i - 1) : toks[j].s \notin {"(", "ENDMARKER"}
    IN  Position(toks[op].line, toks[op].col + 1)

Parenthesised(n) == toks[nodes[n].first].s = "(" /\ toks[nodes[n].last].s = ")"

\* the parameters of a def in declaration order, then its return annotation
DefParams(n) ==
    LET a == field(n, "args")
        p(name) == IF a = << >> THEN << >> ELSE field(a[1], name)
    IN  p("posonlyargs") \o p("args") \o p("vararg") \o p("kwonlyargs") \o p("kwarg")
        \o field(n, "returns")

\* the line group of a node the under-wrap checker is handed
UnderGroup(n) ==
    CASE Kind(n) = "ClassDef" ->
            get_nodes_by_line_number(n, AfterParen(n, "class"),
                field(n, "bases") \o field(n, "keywords"), FALSE, TRUE)
      [] Kind(n) \in {"FunctionDef", "AsyncFunctionDef"} ->
            get_nodes_by_line_number(n, AfterParen(n, "def"), DefParams(n), FALSE, TRUE)
      [] Kind(n) = "List" ->
            get_nodes_by_line_number(n, Starts(<< n >>)[1], field(n, "elts"), TRUE, TRUE)
      [] Kind(n) = "Tuple" ->
            get_nodes_by_line_number(n, Starts(<< n >>)[1], field(n, "elts"),
                                     Parenthesised(n), Parenthesised(n))

UnderChecked == {"ClassDef", "FunctionDef", "AsyncFunctionDef", "List", "Tuple"}

\* C1: a node handed to the under-wrap checker (class, def, list, tuple) has
\* an UnderWrapped error iff its line group has more than one line and some
\* bucket holds more than one element; the error is then the only one of
\* the node and lists the starts of the most crowded bucket, in bucket order.
C1_UnderWrapChecker ==
    Returned => \A n \in visited :
        Kind(n) \in UnderChecked =>
            LET g == UnderGroup(n)
            IN  ErrorsOf(n) = IF ManyLines(g) /\ Crowded(g)
                              THEN << Under(n, MostCrowded(g)) >>
                              ELSE << >>

\* C1 witness: an error recorded for such a node whose group has two buckets
\* of the largest size, and another such node visited without an error.
C1_Witness ==
    Returned /\ \E n \in visited :
        /\ Kind(n) \in UnderChecked
        /\ ErrorsOf(n) # << >>
        /\ LET g == UnderGroup(n)
           IN  \E i, j \in DOMAIN g :
                  /\ i < j
                  /\ Len(g[i].nodes) = Len(g[j].nodes)
                  /\ \A k \in DOMAIN g : Len(g[k].nodes) <= Len(g[i].nodes)

CallRef(n) ==
    LET f == field(n, "func")[1]
        op == CHOOSE i \in nodes[f].last..Len(toks) :
                 toks[i].s = "(" /\ \A j \in nodes[f].last..(i - 1) : toks[j].s # "("
    IN  Position(toks[op].line, toks[op].col + 1)

CallCombined(n) ==
    get_nodes_by_line_number(n, CallRef(n), field(n, "args") \o field(n, "keywords"),
                             TRUE, TRUE)

CallKeywordGroup(n) ==
    get_nodes_by_line_number(n, CallRef(n), field(n, "keywords"),
                             TRUE, field(n, "args") = << >>)

CallPositionalGroup(n) ==
    get_nodes_by_line_number(n, CallRef(n), field(n, "args"),
                             field(n, "keywords") = << >>, TRUE)

\* the keyword arguments of call n that start on line l
KeywordsOn(n, l) ==
    {k \in DOMAIN field(n, "keywords") : StartLine(field(n, "keywords")[k]) = l}

PositionalOnOpeningLine(n) ==
    /\ field(n, "args") # << >>
    /\ \A i \in DOMAIN field(n, "args") : StartLine(field(n, "args")[i]) = CallRef(n).line

C2_WitnessBoth == Returned /\ \E n \in visited : Kind(n) = "Call" /\ Len(ErrorsOf(n)) = 2

RECURSIVE AllElements(_)
AllElements(g) == IF g = << >> THEN << >> ELSE g[1].nodes \o AllElements(Tail(g))

OverGroup(n) ==
    IF Kind(n) = "comprehension"
    THEN get_nodes_by_line_number(n, Starts(<< n >>)[1],
            field(n, "target") \o field(n, "iter"), FALSE, FALSE)
    ELSE get_nodes_by_line_number(n, Starts(field(n, "left"))[1],
            field(n, "left") \o field(n, "comparators"), TRUE, TRUE)

OnOneLine(n) == StartLine(n) = EndLine(n)

\* C3: a comprehension clause or comparison chain has an OverWrapped error
\* iff its line group does not have exactly one line; the error lists the
\* start of every element of every bucket; none when it is all on one line.
C3_OverWrapChecker ==
    Returned => \A n \in visited :
        Kind(n) \in {"comprehension", "Compare"} =>
            LET g == OverGroup(n)
            IN  /\ ErrorsOf(n) = IF Len(g) # 1 THEN << Over(n, AllElements(g)) >> ELSE << >>
                /\ OnOneLine(n) => ErrorsOf(n) = << >>

\* C3 witness: a chain of three operands over two lines with its error, two
\* operands sharing a line.
C3_Witness ==
    Returned /\ \E n \in visited :
        /\ Kind(n) = "Compare"
        /\ Len(field(n, "comparators")) = 2
        /\ ErrorsOf(n) # << >>
        /\ Crowded(OverGroup(n))

C3_WitnessClause ==
    Returned /\ \E n \in visited : Kind(n) = "comprehension" /\ ErrorsOf(n) # << >>

DictGroup(n) ==
    get_nodes_by_line_number(n, Starts(<< n >>)[1], field(n, "keys"), TRUE, TRUE)

\* the dict has one value, which starts on the dict's first line and ends
\* on its last
HugsOneValue(n) ==
    /\ Len(field(n, "values")) = 1
    /\ StartLine(field(n, "values")[1]) = StartLine(n)
    /\ EndLine(field(n, "values")[1]) = EndLine(n)

\* C4: a dict has an Under error iff the group over its keys (start and end
\* included) has several lines and a crowded bucket, and the dict is not a
\* one-value dict whose value starts on its first and ends on its last line;
\* never more than one error.
C4_DictSingleEntryHugging ==
    Returned => \A n \in visited :
        Kind(n) = "Dict" =>
            LET g == DictGroup(n)
                bad == ManyLines(g) /\ Crowded(g)
            IN  /\ Len(ErrorsOf(n)) = IF bad /\ ~HugsOneValue(n) THEN 1 ELSE 0
                /\ \A i \in DOMAIN ErrorsOf(n) : ErrorsOf(n)[i].type = "UnderWrappedError"
                /\ HugsOneValue(n) => ErrorsOf(n) = << >>
                /\ (bad /\ Len(field(n, "values")) >= 2) => Len(ErrorsOf(n)) = 1

\* C4 witness: a one-entry dict over several lines hugging its value, not
\* reported although its group is crowded.
C4_Witness ==
    Returned /\ \E n \in visited :
        /\ Kind(n) = "Dict"
        /\ HugsOneValue(n)
        /\ ManyLines(DictGroup(n)) /\ Crowded(DictGroup(n))
        /\ ErrorsOf(n) = << >>

\* C4 witness: two values, the first over the same lines, reported once.
C4_WitnessTwo ==
    Returned /\ \E n \in visited :
        /\ Kind(n) = "Dict"
        /\ Len(field(n, "values")) = 2
        /\ StartLine(field(n, "values")[1]) = StartLine(n)
        /\ EndLine(field(n, "values")[1]) > StartLine(n)
        /\ Len(ErrorsOf(n)) = 1

IfExpParenthesised(n) ==
    toks[nodes[n].first - 1].s = "(" /\ toks[nodes[n].last + 1].s = ")"

\* the children a checker buckets
CheckedChildren(n) ==
    CASE Kind(n) = "Call" -> field(n, "args") \o field(n, "keywords")
      [] Kind(n) = "ClassDef" -> field(n, "bases") \o field(n, "keywords")
      [] Kind(n) \in {"FunctionDef", "AsyncFunctionDef"} -> DefParams(n)
      [] Kind(n) \in {"List", "Tuple"} -> field(n, "elts")
      [] Kind(n) = "Dict" -> field(n, "keys")
      [] Kind(n) = "IfExp" -> field(n, "body") \o field(n, "test") \o field(n, "orelse")
      [] Kind(n) = "comprehension" -> field(n, "target") \o field(n, "iter")
      [] Kind(n) = "Compare" -> field(n, "left") \o field(n, "comparators")

\* the line of the reference position of a checked construct
RefLine(n) ==
    CASE Kind(n) = "Call" -> CallRef(n).line
      [] Kind(n) = "ClassDef" -> AfterParen(n, "class").line
      [] Kind(n) \in {"FunctionDef", "AsyncFunctionDef"} -> AfterParen(n, "def").line
      [] Kind(n) = "IfExp" -> toks[nodes[n].first - 1].line
      [] Kind(n) = "Compare" -> StartLine(field(n, "left")[1])
      [] OTHER -> StartLine(n)

\* the lines of the construct's end that its checker looks at
ClosingLines(n) ==
    CASE Kind(n) \in {"Call", "List", "Dict", "Compare"} -> {EndLine(n)}
      [] Kind(n) = "Tuple" -> IF Parenthesised(n) THEN {EndLine(n)} ELSE {}
      [] Kind(n) = "IfExp" ->
            IF IfExpParenthesised(n) THEN {toks[nodes[n].last + 1].line} ELSE {}
      [] OTHER -> {}

ConstructKinds ==
    {"ClassDef", "FunctionDef", "AsyncFunctionDef", "Call", "Dict", "IfExp", "List",
     "Tuple", "comprehension", "Compare"}

ChildrenOnRefLine(n) ==
    \A i \in DOMAIN CheckedChildren(n) :
        /\ StartLine(CheckedChildren(n)[i]) = RefLine(n)
        /\ OnOneLine(CheckedChildren(n)[i])

\* C5 as claimed: a construct whose checked children all start on its
\* reference line and each sit on one line has no error, wherever its
\* closing delimiter is.
C5_SingleLineAsClaimed ==
    Returned => \A n \in visited :
        (Kind(n) \in ConstructKinds /\ ChildrenOnRefLine(n)) => ErrorsOf(n) = << >>

\* C5 amended: a construct whose checked children all start on its
\* reference line and each sit on one line has no error, provided the end
\* its checker looks at (end of a call, list, dict, parenthesised tuple or
\* comparison; closing parenthesis of a parenthesised conditional) is on
\* the reference line too.
C5_SingleLine ==
    Returned => \A n \in visited :
        ( /\ Kind(n) \in ConstructKinds
          /\ ChildrenOnRefLine(n)
          /\ ClosingLines(n) \subseteq {RefLine(n)} )
        => ErrorsOf(n) = << >>

\* C5 witness: such a construct with two or more children, visited, in a
\* statement of several lines.
C5_Witness ==
    Returned /\ \E n \in visited :
        /\ Kind(n) \in {"Call", "List", "Dict", "Tuple"}
        /\ Len(CheckedChildren(n)) >= 2
        /\ ChildrenOnRefLine(n)
        /\ ClosingLines(n) = {RefLine(n)}
        /\ ErrorsOf(n) = << >>
        /\ \E i \in DOMAIN toks : toks[i].s = "NEWLINE" /\ toks[i].line > 1

UnderKinds ==
    {"ClassDef", "FunctionDef", "AsyncFunctionDef", "Call", "Dict", "IfExp", "List",
     "Tuple"}

ChildrenOn(n, l) ==
    {i \in DOMAIN CheckedChildren(n) : StartLine(CheckedChildren(n)[i]) = l}

\* exactly two children start on line l, every other child on a line of
\* its own
PairOn(n, l) ==
    /\ Cardinality(ChildrenOn(n, l)) = 2
    /\ \A i \in DOMAIN CheckedChildren(n) :
          StartLine(CheckedChildren(n)[i]) # l
          => ChildrenOn(n, StartLine(CheckedChildren(n)[i])) = {i}

OneErrorOn(n, l) ==
    /\ Len(ErrorsOf(n)) = 1
    /\ ErrorsOf(n)[1].type = "UnderWrappedError"
    /\ ErrorsOf(n)[1].positions[1].line = l
    /\ Len(ErrorsOf(n)[1].positions) = 2

\* C6 as claimed: two children sharing a line, the others on lines of their
\* own: one Under error, anchored on the shared line, with 2 positions.
C6_CrowdingAsClaimed ==
    Returned => \A n \in visited : \A l \in Lines :
        (Kind(n) \in UnderKinds /\ PairOn(n, l)) => OneErrorOn(n, l)

\* the lines on which the checker puts the construct itself
OwnLines(n) ==
    CASE Kind(n) \in {"ClassDef", "FunctionDef", "AsyncFunctionDef"} -> {RefLine(n)}
      [] Kind(n) = "Tuple" -> IF Parenthesised(n) THEN {StartLine(n), EndLine(n)} ELSE {}
      [] Kind(n) = "IfExp" ->
            IF IfExpParenthesised(n)
            THEN {toks[nodes[n].first - 1].line, toks[nodes[n].last + 1].line}
            ELSE {}
      [] OTHER -> {RefLine(n), EndLine(n)}

\* in a call, either both positional or both keyword arguments
SameSort(n, l) ==
    Kind(n) = "Call" =>
        \/ \A i \in ChildrenOn(n, l) : i <= Len(field(n, "args"))
        \/ \A i \in ChildrenOn(n, l) : i > Len(field(n, "args"))

\* C6 amended: two children sharing line l (in a call both positional or both
\* keyword), every other child on a line of its own, no child starting on a
\* line where the checker puts the construct's own start or end, and some
\* entry of the group off line l (a third child or the construct itself):
\* one Under error, anchored on l, listing exactly the 2 children.
C6_Crowding ==
    Returned => \A n \in visited : \A l \in Lines :
        ( /\ Kind(n) \in UnderKinds
          /\ PairOn(n, l)
          /\ SameSort(n, l)
          /\ \A i \in DOMAIN CheckedChildren(n) :
                StartLine(CheckedChildren(n)[i]) \notin OwnLines(n)
          /\ (Len(CheckedChildren(n)) >= 3 \/ OwnLines(n) # {}) )
        => /\ OneErrorOn(n, l)
           /\ ErrorsOf(n)[1].positions =
                Starts([k \in 1..2 |-> CheckedChildren(n)[
                    CHOOSE i \in ChildrenOn(n, l) :
                        Cardinality({j \in ChildrenOn(n, l) : j <= i}) = k]])

\* C6 witness: a call with three arguments, two of one sort sharing a line
\* between the lines of the parentheses, and its error.
C6_Witness ==
    Returned /\ \E n \in visited : \E l \in Lines :
        /\ Kind(n) = "Call"
        /\ Len(CheckedChildren(n)) = 3
        /\ PairOn(n, l)
        /\ SameSort(n, l)
        /\ \A i \in DOMAIN CheckedChildren(n) :
              StartLine(CheckedChildren(n)[i]) \notin OwnLines(n)
        /\ OneErrorOn(n, l)

\* the last argument spans several lines and ends in the column right
\* before the call's closing parenthesis
HugsLastArgument(n) ==
    LET cs == CheckedChildren(n)
        last == cs[Len(cs)]
    IN  /\ cs # << >>
        /\ StartLine(last) < EndLine(last)
        /\ EndLine(last) = EndLine(n)
        /\ toks[nodes[last].last].col + 1 = toks[nodes[n].last].col

\* C7 as claimed: a call hugging its sole or last argument has no error.
C7_HuggingAsClaimed ==
    Returned => \A n \in visited :
        (Kind(n) = "Call" /\ HugsLastArgument(n)) => ErrorsOf(n) = << >>

\* C7 amended: a call hugging its last argument has no error when that is
\* its sole argument, or when all its arguments start on the line of the
\* opening parenthesis.
C7_Hugging ==
    Returned => \A n \in visited :
        ( /\ Kind(n) = "Call"
          /\ HugsLastArgument(n)
          /\ \/ Len(CheckedChildren(n)) = 1
             \/ \A i \in DOMAIN CheckedChildren(n) :
                   StartLine(CheckedChildren(n)[i]) = RefLine(n) )
        => ErrorsOf(n) = << >>

\* C7 witness: a call of several lines hugging the last of its two or more
\* arguments, visited without an error.
C7_Witness ==
    Returned /\ \E n \in visited :
        /\ Kind(n) = "Call"
        /\ HugsLastArgument(n)
        /\ Len(CheckedChildren(n)) >= 2
        /\ ErrorsOf(n) = << >>

\* C8 as claimed: no error is ever recorded for a tuple that is not
\* parenthesised.
C8_BareTupleAsClaimed ==
    Returned => \A n \in visited :
        (Kind(n) = "Tuple" /\ ~Parenthesised(n)) => ErrorsOf(n) = << >>

ElementLines(n) == {StartLine(field(n, "elts")[i]) : i \in DOMAIN field(n, "elts")}

\* C8 amended: a tuple that is not parenthesised is checked without its own
\* start and end: it has one Under error iff its elements neither all start
\* on one line nor each on a line of their own, and the error lists elements
\* only; a parenthesised tuple is checked with its start and end included.
C8_BareTuple ==
    Returned => \A n \in visited :
        Kind(n) = "Tuple" =>
            LET es == field(n, "elts")
                uneven == /\ Cardinality(ElementLines(n)) > 1
                          /\ Cardinality(ElementLines(n)) < Len(es)
                g == get_nodes_by_line_number(n, Starts(<< n >>)[1], es, TRUE, TRUE)
            IN  IF Parenthesised(n)
                THEN Len(ErrorsOf(n)) = IF ManyLines(g) /\ Crowded(g) THEN 1 ELSE 0
                ELSE /\ Len(ErrorsOf(n)) = IF uneven THEN 1 ELSE 0
                     /\ \A i \in DOMAIN ErrorsOf(n) :
                           /\ ErrorsOf(n)[i].type = "UnderWrappedError"
                           /\ \A k \in DOMAIN ErrorsOf(n)[i].positions :
                                 \E j \in DOMAIN es :
                                    ErrorsOf(n)[i].positions[k] = Starts(<< es[j] >>)[1]

\* C8 witness: a tuple without parentheses, two of its elements sharing a
\* line and a third on another, and its error.
C8_Witness ==
    Returned /\ \E n \in visited :
        /\ Kind(n) = "Tuple"
        /\ ~Parenthesised(n)
        /\ Len(ErrorsOf(n)) = 1

Before(p, q) == p.line < q.line \/ (p.line = q.line /\ p.col <= q.col)

\* C9 as claimed: the errors, and the tuples yielded from them, are in
\* source order: an earlier one's anchor is never after a later one's.
C9_SourceOrder ==
    \A i, j \in DOMAIN errors :
        i < j =>
            /\ Before(position(errors[i]), position(errors[j]))
            /\ Before(Position(flake8_balanced_wrapping[i][1], flake8_balanced_wrapping[i][2]),
                      Position(flake8_balanced_wrapping[j][1], flake8_balanced_wrapping[j][2]))

\* C10 as claimed: the N of an OverWrapped message is the number of lines
\* of the line group that triggered it, hence at least 2.
C10_OverMessageCount ==
    \A i \in DOMAIN errors :
        errors[i].type = "OverWrappedError" =>
            /\ flake8_balanced_wrapping[i][3].n = Len(OverGroup(errors[i].node))
            /\ flake8_balanced_wrapping[i][3].n >= 2

(***************************************************************************)
(* The line grouper, call by call.                                         *)
(***************************************************************************)
GrouperCall(ref, ns, end, start) == [ref |-> ref, ns |-> ns, end |-> end, start |-> start]

\* the calls of the line grouper the visit of node n makes
GrouperCalls(n) ==
    CASE Kind(n) = "ClassDef" ->
            {GrouperCall(AfterParen(n, "class"), CheckedChildren(n), FALSE, TRUE)}
      [] Kind(n) \in {"FunctionDef", "AsyncFunctionDef"} ->
            {GrouperCall(AfterParen(n, "def"), CheckedChildren(n), FALSE, TRUE)}
      [] Kind(n) = "Call" ->
            {GrouperCall(CallRef(n), CheckedChildren(n), TRUE, TRUE)} \cup
            IF ManyLines(CallCombined(n))
            THEN {GrouperCall(CallRef(n), field(n, "keywords"), TRUE,
                              field(n, "args") = << >>),
                  GrouperCall(CallRef(n), field(n, "args"),
                              field(n, "keywords") = << >>, TRUE)}
            ELSE {}
      [] Kind(n) \in {"Dict", "List"} ->
            {GrouperCall(Starts(<< n >>)[1], CheckedChildren(n), TRUE, TRUE)}
      [] Kind(n) = "Tuple" ->
            {GrouperCall(Starts(<< n >>)[1], CheckedChildren(n),
                         Parenthesised(n), Parenthesised(n))}
      [] Kind(n) = "IfExp" ->
            {GrouperCall(Position(toks[nodes[n].first - 1].line, toks[nodes[n].first - 1].col),
                         CheckedChildren(n), FALSE, FALSE)}
      [] Kind(n) = "comprehension" ->
            {GrouperCall(Starts(<< n >>)[1], CheckedChildren(n), FALSE, FALSE)}
      [] Kind(n) = "Compare" ->
            {GrouperCall(Starts(field(n, "left"))[1], CheckedChildren(n), TRUE, TRUE)}
      [] OTHER -> {}

\* how often x is in the bucket of line l of group g
Occurrences(g, l, x) ==
    Cardinality({p \in (DOMAIN g) \X (1..(Len(toks) + 2)) :
                    /\ g[p[1]].line = l
                    /\ p[2] \in DOMAIN g[p[1]].nodes
                    /\ g[p[1]].nodes[p[2]] = x})

\* some child of the call ends one column before the end of node n
ChildHugsEnd(n, c) ==
    \E i \in DOMAIN c.ns :
        /\ EndLine(c.ns[i]) = EndLine(n)
        /\ toks[nodes[c.ns[i]].last].col + 1 = toks[nodes[n].last].col

\* before the node's end is looked at, a bucket exists at its end line
BucketAtEnd(n, c) ==
    \/ c.start /\ c.ref.line = EndLine(n)
    \/ \E i \in DOMAIN c.ns : StartLine(c.ns[i]) = EndLine(n)

EndLeftOut(n, c) == ChildHugsEnd(n, c) /\ ~BucketAtEnd(n, c)

\* C11: in every group the line grouper builds, each child is in the bucket
\* of its start line, once, and in no other; the node is in the bucket of
\* its end line for its end, as the last entry, exactly when the end is
\* included and not (some child ends one column before the node's end and
\* no bucket exists at the end line); in that hugging case the group has no
\* bucket at the end line; without the end included the node is only in the
\* group for its start; and no bucket is empty or repeated.
C11_GrouperEnd ==
    Returned => \A n \in visited : \A c \in GrouperCalls(n) :
        LET g == get_nodes_by_line_number(n, c.ref, c.ns, c.end, c.start)
            forStart(l) == IF c.start /\ l = c.ref.line THEN 1 ELSE 0
            forEnd(l) == IF c.end /\ l = EndLine(n) /\ ~EndLeftOut(n, c) THEN 1 ELSE 0
        IN  /\ \A i \in DOMAIN c.ns : \A l \in Lines :
                  Occurrences(g, l, c.ns[i]) = IF l = StartLine(c.ns[i]) THEN 1 ELSE 0
            /\ \A l \in Lines : Occurrences(g, l, n) = forStart(l) + forEnd(l)
            /\ (c.end /\ ~EndLeftOut(n, c)) =>
                  LET b == getitem(g, EndLine(n)) IN b[Len(b)] = n
            /\ (c.end /\ EndLeftOut(n, c)) => ~contains(g, EndLine(n))
            /\ \A i \in DOMAIN g : g[i].nodes # << >> /\ g[i].line \in Lines
            /\ \A i, j \in DOMAIN g : g[i].line = g[j].line => i = j

\* C11 witness: a visited node of several lines whose last child hugs its
\* closing delimiter, with its end left out of a group that was built.
C11_Witness ==
    Returned /\ \E n \in visited : \E c \in GrouperCalls(n) :
        /\ c.end
        /\ EndLeftOut(n, c)
        /\ ~contains(get_nodes_by_line_number(n, c.ref, c.ns, c.end, c.start), EndLine(n))

\* a child hugs the closing delimiter on a line that has a bucket: the node
\* is appended for its end all the same
C11_WitnessBucket ==
    Returned /\ \E n \in visited : \E c \in GrouperCalls(n) :
        /\ c.end
        /\ ChildHugsEnd(n, c)
        /\ BucketAtEnd(n, c)
        /\ StartLine(n) # EndLine(n)
        /\ Occurrences(get_nodes_by_line_number(n, c.ref, c.ns, c.end, c.start),
                       EndLine(n), n) = 1

(***************************************************************************)
(* The conditional expression.                                             *)
(***************************************************************************)
\* then-branch, condition, else-branch
IfExpParts(n) == field(n, "body") \o field(n, "test") \o field(n, "orelse")

OpenParenLine(n) == toks[nodes[n].first - 1].line

CloseParenLine(n) == toks[nodes[n].last + 1].line

\* how many parts of conditional n start on line l
PartsOn(n, l) == Cardinality({i \in DOMAIN IfExpParts(n) : StartLine(IfExpParts(n)[i]) = l})

\* how often the node is in the bucket of line l: once for each parenthesis
\* on that line when the conditional is parenthesised
ParensOn(n, l) ==
    IF IfExpParenthesised(n)
    THEN (IF l = OpenParenLine(n) THEN 1 ELSE 0) + (IF l = CloseParenLine(n) THEN 1 ELSE 0)
    ELSE 0

IfExpOneLine(n) == Cardinality({l \in Lines : PartsOn(n, l) + ParensOn(n, l) > 0}) = 1

IfExpOneColumn(n) == \A l \in Lines : PartsOn(n, l) + ParensOn(n, l) <= 1

\* C12: the group of a conditional holds its three parts, each once in the
\* bucket of its start line, and the node once for the line of the token
\* before its first token and once for the line of the token after its last
\* token exactly when it is parenthesised, never otherwise; one Under error
\* is recorded iff that group is neither single-line nor single-column.  So
\* an unparenthesised conditional with its parts on three lines has no error
\* and a parenthesised one of several lines with a parenthesis on the line
\* where a part starts has one.
C12_IfExp ==
    Returned => \A n \in visited :
        Kind(n) = "IfExp" =>
            LET g == IfExp_group(n)
            IN  /\ Len(IfExpParts(n)) = 3
                /\ \A i \in 1..3 : \A l \in Lines :
                      Occurrences(g, l, IfExpParts(n)[i])
                          = IF l = StartLine(IfExpParts(n)[i]) THEN 1 ELSE 0
                /\ \A l \in Lines : Occurrences(g, l, n) = ParensOn(n, l)
                /\ \A i \in DOMAIN g : g[i].nodes # << >> /\ g[i].line \in Lines
                /\ IF ~IfExpOneLine(n) /\ ~IfExpOneColumn(n)
                   THEN /\ Len(ErrorsOf(n)) = 1
                        /\ ErrorsOf(n)[1].type = "UnderWrappedError"
                   ELSE ErrorsOf(n) = << >>
                /\ (~IfExpParenthesised(n) /\ \A l \in Lines : PartsOn(n, l) <= 1)
                      => ErrorsOf(n) = << >>
                /\ ( /\ IfExpParenthesised(n)
                     /\ StartLine(n) # EndLine(n)
                     /\ \E l \in {OpenParenLine(n), CloseParenLine(n)} : PartsOn(n, l) > 0 )
                      => Len(ErrorsOf(n)) = 1

\* C12 witness: a parenthesised conditional of several lines, visited, whose
\* opening parenthesis is on the line where a part starts, with its error.
C12_Witness ==
    Returned /\ \E n \in visited :
        /\ Kind(n) = "IfExp"
        /\ IfExpParenthesised(n)
        /\ StartLine(n) # EndLine(n)
        /\ PartsOn(n, OpenParenLine(n)) > 0
        /\ CloseParenLine(n) # EndLine(n)
        /\ Len(ErrorsOf(n)) = 1

\* an unparenthesised conditional with its parts on three lines, visited,
\* without an error
C12_WitnessBare ==
    Returned /\ \E n \in visited :
        /\ Kind(n) = "IfExp"
        /\ ~IfExpParenthesised(n)
        /\ \A l \in Lines : PartsOn(n, l) <= 1
        /\ ErrorsOf(n) = << >>

(***************************************************************************)
(* Internal failures.                                                      *)
(***************************************************************************)
\* the line groups the visit of node n hands to the line summary
SummarisedGroups(n) ==
    CASE Kind(n) \in UnderChecked -> {UnderGroup(n)}
      [] Kind(n) = "Dict" -> {DictGroup(n)}
      [] Kind(n) = "IfExp" -> {IfExp_group(n)}
      [] Kind(n) = "Call" ->
            IF ManyLines(CallCombined(n))
            THEN {CallKeywordGroup(n), CallPositionalGroup(n)}
            ELSE {}
      [] OTHER -> {}

\* C13: no assertion and no unpacking fails during the walk: every line
\* group handed to the line summary has a bucket (the keyword group of a
\* call with positional arguments only and the group of an unparenthesised
\* tuple too), its most crowded bucket has an entry, every recorded error
\* has a position and every UnderWrapped error at least two.
C13_NoInternalFailure ==
    /\ ~raised
    /\ \A n \in visited : \A g \in SummarisedGroups(n) :
          /\ g # << >>
          /\ MostCrowded(g) # << >>
    /\ \A i \in DOMAIN errors :
          /\ errors[i].positions # << >>
          /\ errors[i].type = "UnderWrappedError" => Len(errors[i].positions) >= 2

\* C13 witness: a call of several lines with positional arguments and no
\* keyword, visited to the end of the walk: its keyword group was summarised
\* and holds the call's end alone.
C13_Witness ==
    Returned /\ \E n \in visited :
        /\ Kind(n) = "Call"
        /\ field(n, "args") # << >>
        /\ field(n, "keywords") = << >>
        /\ ManyLines(CallCombined(n))
        /\ Len(CallKeywordGroup(n)) = 1
        /\ CallKeywordGroup(n)[1].nodes = << n >>

\* an unparenthesised tuple of several lines, visited, with an error of two
\* positions or more
C13_WitnessTuple ==
    Returned /\ \E n \in visited :
        /\ Kind(n) = "Tuple"
        /\ ~Parenthesised(n)
        /\ Len(ErrorsOf(n)) = 1
        /\ Len(ErrorsOf(n)[1].positions) >= 2
====
